---- MODULE Spec2Model ----
(***************************************************************************)
(* Model of the live capture controller (src/components/live-capture.tsx)  *)
(* together with the parts of LiveClient, AudioRecorder and AudioStreamer  *)
(* that the controller drives.                                             *)
(*                                                                         *)
(* Every handler of the component runs to completion on the single         *)
(* JavaScript thread; an `await` ends the step and the continuation is a   *)
(* later step.  React state (`state`, `capturedImagePreview`) is modelled  *)
(* as updated at once.                                                     *)
(*                                                                         *)
(* LiveClient, AudioStreamer and AudioRecorder are also modelled each on    *)
(* its own (SpecClient, SpecStreamer, SpecRecorder), under every           *)
(* interleaving of their calls and callbacks.                              *)
(* SpecConfig takes connect() under every config, SpecEmitter the listener *)
(* table of an emitter, SpecPcm one sample through the two PCM16           *)
(* conversions.                                                            *)
(*                                                                         *)
(* Text is modelled as a sequence of tokens: "K" stands for the characters *)
(* `"memory":`, "q" for a double quote, "{" and "}" for braces, " " for a  *)
(* blank, every other token for an ordinary character.                     *)
(***************************************************************************)
EXTENDS Integers, Sequences, FiniteSets, TLC

\* ---------------------------------------------------------------- bounds
MaxRuns == 2
MaxRunsTx == 1
MaxStable == 3
MaxBuf == 16

\* ------------------------------------------------------ program constants
STABLE_FRAMES_REQUIRED == 2

\* the text "No memory recorded"
Placeholder == <<"N", "o", " ", "m", "e", "m">>

\* null for a description, for a frame and for capturedObjectRef.current
Null == "null"
NoFrame == 0
NoObject == [imageBase64 |-> NoFrame, description |-> Null]
NoRow == [object_image_base64 |-> NoFrame, object_description |-> Null,
          object_memory |-> <<>>]

\* the frames a full-frame grab may yield (see Frame)
Frames == 1..MaxRuns

\* descriptions the analysis endpoint may return
Descs == {"mug", "key"}

\* inbound text chunks: "...", {"memory":"a"}, {"memory":"ab"}
Dots == <<".", ".", ".">>
MemA == <<"{", "K", "q", "a", "q", "}">>
MemAB == <<"{", "K", "q", "a", "b", "q", "}">>
Chunks == {Dots, MemA, MemAB}

VARIABLES
    state,                \* useState<LiveCaptureState>
    capturedObject,       \* capturedObjectRef.current
    capturedImagePreview, \* useState capturedImagePreview
    processingCapture,    \* processingCaptureRef.current
    stableFrameCount,     \* stableFrameCountRef.current
    previousFrameData,    \* previousFrameDataRef.current is set
    transcriptBuffer,     \* transcriptBufferRef.current
    transcribedMemory,    \* transcribedMemoryRef.current
    scanningTimeout,      \* scanningTimeoutRef: "null", "armed" or "stale"
    videoSrc,             \* the mounted <video> has its srcObject assigned
    streamRef,            \* streamRef.current holds a live camera stream
    cameraLeak,           \* a live camera stream is no longer referenced
    streamerOpen,         \* an AudioStreamer of the component is not closed
    micOpen,              \* a recorder of the component holds a live mic track
    intervalSet,          \* a frame interval was set and not cleared
    clientRef,            \* clientRef.current is set
    client,               \* the LiveClient in clientRef
    orphanOpen,           \* a client no longer referenced has an open session
    startPc,              \* where startLiveCapture is suspended
    analyses,             \* generateDescription calls in flight, per frame
    reconnects,           \* mode-switch connects in flight on clientRef's client
    orphanReconnects,     \* the same, on clients no longer referenced
    inserts,              \* persistence calls in flight
    lastInsert,           \* the row of the latest insert issued
    runs,                 \* number of start actions so far
    hist,                 \* per run: captures (null to non-null), saves
                          \* issued, stable evaluated ticks in a row
    triggers,             \* armed timers of the recognition trigger
    ctlOut,               \* what the latest step handed to the session
    \* one LiveClient taken alone
    session,              \* this.session: 0 (null) or a session
    isConnected,          \* this.isConnected
    sessions,             \* the state of every session connect() asked for
    clientOut,            \* what the latest call or inbound message did
    requested,            \* the config the latest connect() call was given
    connectArgs,          \* what that call handed to live.connect
    \* one AudioStreamer taken alone
    queue,                \* this.queue: the durations of the waiting buffers
    isPlaying,            \* this.isPlaying
    nextTime,             \* this.nextTime
    currentTime,          \* audioContext.currentTime
    sources,              \* the buffer sources started so far
    gain,                 \* gainNode.gain: "unity" or "ramp"
    stops,                \* number of stop() calls so far
    streamerOut,          \* what the latest call or callback did
    \* one AudioRecorder taken alone
    isRecording,          \* this.isRecording
    mediaStream,          \* this.mediaStream: 0 (null) or a stream
    processorNode,        \* this.processorNode: 0 (null) or a node
    chains,               \* per start() call: its stream and processor node
    lastCall,             \* the latest call made on the recorder
    quiet,                \* stop() returned on a started recorder and no
                          \* start() called after it has succeeded
    recorderOut,          \* what the latest call or callback did
    \* the listener table of one emitter (LiveClient, AudioStreamer)
    listeners,            \* this.listeners: per event kind, a Set in its order
    invoked,              \* the callbacks the latest emit called, in order
    regAt,                \* per kind and callback: when it was registered
    regs,                 \* registrations so far
    \* one sample through the recorder's and the streamer's conversions
    inputData,            \* inputData[i]: a Float32 sample of the microphone
    int16Data,            \* int16Data[i]: the Int16Array element
    float32Data,          \* float32Data[i], in units of 1/32768
    pcmOut                \* the latest conversion made

\* the controller
ctlVars == <<state, capturedObject, capturedImagePreview, processingCapture,
             stableFrameCount, previousFrameData, transcriptBuffer,
             transcribedMemory, scanningTimeout, videoSrc, streamRef,
             cameraLeak, streamerOpen, micOpen, intervalSet, clientRef,
             client, orphanOpen, startPc, analyses, reconnects,
             orphanReconnects, inserts, lastInsert, runs, hist, triggers,
             ctlOut>>

\* the three components taken alone
clientVars == <<session, isConnected, sessions, clientOut, requested,
                connectArgs>>
streamerVars == <<queue, isPlaying, nextTime, currentTime, sources, gain,
                  stops, streamerOut>>
recorderVars == <<isRecording, mediaStream, processorNode, chains, lastCall,
                  quiet, recorderOut>>
emitterVars == <<listeners, invoked, regAt, regs>>
pcmVars == <<inputData, int16Data, float32Data, pcmOut>>
compVars == <<clientVars, streamerVars, recorderVars, emitterVars, pcmVars>>

vars == <<ctlVars, compVars>>

\* ------------------------------------------------------------- helpers
Min(S) == CHOOSE x \in S : \A y \in S : x <= y

\* the <video> element is rendered only outside idle and while no preview
\* image is shown (JSX of the component)
VideoMounted(st, preview) == st # "idle" /\ preview = NoFrame

\* fullText.match(/"memory"\s*:\s*"((?:[^"\\]|\\.)*)"/): the leftmost
\* occurrence of the key followed by a quoted value; the value ends at the
\* first closing quote
MatchStarts(buf) ==
    {i \in 1..Len(buf) : /\ buf[i] = "K"
                         /\ i + 1 <= Len(buf)
                         /\ buf[i + 1] = "q"
                         /\ \E j \in (i + 2)..Len(buf) : buf[j] = "q"}

MemoryMatch(buf) ==
    IF MatchStarts(buf) = {}
    THEN [found |-> FALSE, text |-> <<>>]
    ELSE LET i == Min(MatchStarts(buf))
             j == Min({k \in (i + 2)..Len(buf) : buf[k] = "q"})
         IN [found |-> TRUE, text |-> SubSeq(buf, i + 2, j - 1)]

RECURSIVE DropKeys(_)
DropKeys(s) ==
    IF s = <<>> THEN <<>>
    ELSE IF Head(s) = "K" THEN DropKeys(Tail(s))
    ELSE <<Head(s)>> \o DropKeys(Tail(s))

Blank(s) == [i \in 1..Len(s) |-> IF s[i] \in {"{", "}", "q"} THEN " " ELSE s[i]]

Trim(s) ==
    LET keep == {i \in 1..Len(s) : s[i] # " "}
    IN IF keep = {} THEN <<>>
       ELSE SubSeq(s, Min(keep), CHOOSE m \in keep : \A k \in keep : k <= m)

\* the fallback cleaning chain of the content handler; the token alphabet
\* has no code fence, so the two fence replacements change nothing
CleanText(buf) == Trim(Blank(DropKeys(buf)))

\* the value the content handler leaves in transcribedMemoryRef
Extract(buf, old) ==
    LET m == MemoryMatch(buf)
    IN IF m.found /\ m.text # <<>> THEN m.text
       ELSE IF CleanText(buf) # <<>> THEN CleanText(buf)
       ELSE old

\* ------------------------------------------------------ LiveClient parts
\* session: this.session is null, an open session, or a session whose
\* transport has closed ("dead"); leaked: an open session this client opened
\* is no longer referenced by it; closing: onclose callbacks still to come
NewClient == [session |-> "null", isConnected |-> FALSE, leaked |-> FALSE,
              closing |-> 0]

\* LiveClient.disconnect
Disconnect(cl) ==
    [cl EXCEPT !.session = "null",
               !.isConnected = FALSE,
               !.closing = IF cl.session = "open" THEN @ + 1 ELSE @]

\* LiveClient.connect resolving: onopen runs, then this.session is assigned;
\* a session still referenced and open is overwritten without being closed
Connected(cl) ==
    [cl EXCEPT !.session = "open",
               !.isConnected = TRUE,
               !.leaked = @ \/ cl.session = "open"]

HasOpenSession(cl) == cl.session = "open" \/ cl.leaked

\* some session opened by the component is open
SessionOpen == orphanOpen \/ (clientRef /\ HasOpenSession(client))

\* the guard of LiveClient.sendRealtimeInput and of LiveClient.send
CanSend(cl) == cl.session # "null" /\ cl.isConnected

\* nothing handed to the session, no analysis result given up
NoCtlOut == [sent |-> "none", aborted |-> FALSE]

\* the history of a run that has just started
NoHist == [captures |-> 0, saves |-> 0, streak |-> 0]

\* the frame a full-frame grab yields: frames of one run are taken as equal,
\* frames of different runs as different
Frame == runs

\* number of generateDescription calls in flight
RECURSIVE InFlightUpTo(_)
InFlightUpTo(k) == IF k = 0 THEN 0 ELSE analyses[k] + InFlightUpTo(k - 1)
InFlight == InFlightUpTo(MaxRuns)

\* =============================================== LiveClient, taken alone
\* bound: the connect() calls explored on one client
MaxSessions == 3
\* bound: the parts of one inbound model turn
MaxParts == 1

SessionIds == 1..MaxSessions

\* inbound messages.  kind "null" is null or undefined, "primitive" a string,
\* number or boolean, "object" an object; the other fields are the
\* properties handleMessage reads (FALSE and <<>> when absent)
PartKinds == {"audio", "text", "empty", "null"}
PartSeqs == UNION {[1..n -> PartKinds] : n \in 0..MaxParts}
Message(k, sc, c, i, hp, ps, tc) ==
    [kind |-> k, setupComplete |-> sc, serverContent |-> c,
     interrupted |-> i, hasParts |-> hp, parts |-> ps, turnComplete |-> tc]
NullMessage == Message("null", FALSE, FALSE, FALSE, FALSE, <<>>, FALSE)
PrimitiveMessage == Message("primitive", FALSE, FALSE, FALSE, FALSE, <<>>, FALSE)
Messages ==
    {NullMessage, PrimitiveMessage}
    \cup {Message("object", sc, FALSE, FALSE, FALSE, <<>>, FALSE) :
              sc \in BOOLEAN}
    \cup {Message("object", sc, TRUE, i, FALSE, <<>>, tc) :
              sc \in BOOLEAN, i \in BOOLEAN, tc \in BOOLEAN}
    \cup {Message("object", FALSE, TRUE, FALSE, TRUE, ps, tc) :
              ps \in PartSeqs, tc \in BOOLEAN}

NoOut == [op |-> "none", threw |-> FALSE, forwarded |-> FALSE,
          events |-> <<>>, msg |-> PrimitiveMessage]

\* the loop over modelTurn.parts: a null element throws on part.inlineData,
\* after the events of the parts before it were emitted
RECURSIVE PartsEvents(_)
PartsEvents(ps) ==
    IF ps = <<>> THEN [threw |-> FALSE, events |-> <<>>]
    ELSE IF Head(ps) = "null" THEN [threw |-> TRUE, events |-> <<>>]
    ELSE LET rest == PartsEvents(Tail(ps))
             mine == IF Head(ps) = "audio" THEN <<"audio">>
                     ELSE IF Head(ps) = "text" THEN <<"content">>
                     ELSE <<>>
         IN [threw |-> rest.threw, events |-> mine \o rest.events]

\* LiveClient.handleMessage: the events emitted and whether the call threw.
\* The cast of the message is a compile-time matter: reading a property of
\* null throws a TypeError, reading one of a primitive yields undefined.
HandleMessage(msg) ==
    IF msg.kind = "null" THEN [threw |-> TRUE, events |-> <<>>]
    ELSE IF msg.kind = "primitive" THEN [threw |-> FALSE, events |-> <<>>]
    ELSE IF msg.setupComplete
    THEN [threw |-> FALSE, events |-> <<"setupcomplete">>]
    ELSE IF ~msg.serverContent THEN [threw |-> FALSE, events |-> <<>>]
    ELSE IF msg.interrupted
    THEN [threw |-> FALSE, events |-> <<"interrupted">>]
    ELSE LET p == IF msg.hasParts THEN PartsEvents(msg.parts)
                  ELSE [threw |-> FALSE, events |-> <<>>]
         IN IF p.threw THEN p
            ELSE [threw |-> FALSE,
                  events |-> p.events \o (IF msg.turnComplete
                                          THEN <<"turncomplete">>
                                          ELSE <<>>)]

\* the configs connect() may be given.  model and systemInstruction are
\* "absent" when undefined or empty; responseModalities is {} when not given
Modalities == {"AUDIO", "TEXT"}
DefaultModel == "gemini-2.0-flash-exp"
Models == {"absent", DefaultModel, "gemini-live"}
Instructions == {"absent", "scan", "record"}
Configs == [model : Models, systemInstruction : Instructions,
            responseModalities : SUBSET Modalities]
NoConfig == [model |-> "absent", systemInstruction |-> "absent",
             responseModalities |-> {}]

\* the configs of the controller: the scanning prompt at start, the
\* transcription prompt at the mode switch
ControllerConfigs ==
    {[model |-> DefaultModel, systemInstruction |-> i,
      responseModalities |-> {"AUDIO", "TEXT"}] : i \in {"scan", "record"}}

\* the model and the connectConfig that connect(config) builds
ConnectArgs(config) ==
    [model |-> IF config.model # "absent" THEN config.model
               ELSE DefaultModel,
     systemInstruction |-> config.systemInstruction,
     responseModalities |-> {"AUDIO"}]

ClientInit ==
    /\ session = 0
    /\ isConnected = FALSE
    /\ sessions = [s \in SessionIds |-> "unused"]
    /\ clientOut = NoOut
    /\ requested = NoConfig
    /\ connectArgs = NoConfig

\* connect(config) up to its await of live.connect
connect(config) ==
    /\ \E s \in SessionIds : sessions[s] = "unused"
    /\ LET s == Min({t \in SessionIds : sessions[t] = "unused"})
       IN sessions' = [sessions EXCEPT ![s] = "connecting"]
    /\ requested' = config
    /\ connectArgs' = ConnectArgs(config)
    /\ clientOut' = [NoOut EXCEPT !.op = "connect"]
    /\ UNCHANGED <<session, isConnected>>
    /\ UNCHANGED <<ctlVars, streamerVars, recorderVars, emitterVars, pcmVars>>

\* the transport of session s opens: onopen runs and the awaited call
\* resolves, this.session is assigned
connectOk(s) ==
    /\ sessions[s] = "connecting"
    /\ sessions' = [sessions EXCEPT ![s] = "open"]
    /\ isConnected' = TRUE
    /\ session' = s
    /\ clientOut' = [NoOut EXCEPT !.op = "open", !.events = <<"open", "setupcomplete">>]
    /\ UNCHANGED <<requested, connectArgs>>
    /\ UNCHANGED <<ctlVars, streamerVars, recorderVars, emitterVars, pcmVars>>

\* the awaited call rejects: connect() logs and rethrows
connectFail(s) ==
    /\ sessions[s] = "connecting"
    /\ sessions' = [sessions EXCEPT ![s] = "failed"]
    /\ clientOut' = [NoOut EXCEPT !.op = "connect", !.threw = TRUE]
    /\ UNCHANGED <<session, isConnected>>
    /\ UNCHANGED <<requested, connectArgs>>
    /\ UNCHANGED <<ctlVars, streamerVars, recorderVars, emitterVars, pcmVars>>

\* LiveClient.disconnect
disconnect ==
    /\ sessions' = IF session # 0 /\ sessions[session] = "open"
                   THEN [sessions EXCEPT ![session] = "closing"]
                   ELSE sessions
    /\ session' = 0
    /\ isConnected' = FALSE
    /\ clientOut' = [NoOut EXCEPT !.op = "disconnect"]
    /\ UNCHANGED <<requested, connectArgs>>
    /\ UNCHANGED <<ctlVars, streamerVars, recorderVars, emitterVars, pcmVars>>

\* the onclose callback of a session closed by close() is delivered
onclose(s) ==
    /\ sessions[s] = "closing"
    /\ sessions' = [sessions EXCEPT ![s] = "closed"]
    /\ isConnected' = FALSE
    /\ clientOut' = [NoOut EXCEPT !.op = "close", !.events = <<"close">>]
    /\ UNCHANGED session
    /\ UNCHANGED <<requested, connectArgs>>
    /\ UNCHANGED <<ctlVars, streamerVars, recorderVars, emitterVars, pcmVars>>

\* the remote end closes session s, or its transport fails: onclose
remoteClose(s) ==
    /\ sessions[s] = "open"
    /\ sessions' = [sessions EXCEPT ![s] = "closed"]
    /\ isConnected' = FALSE
    /\ clientOut' = [NoOut EXCEPT !.op = "close", !.events = <<"close">>]
    /\ UNCHANGED session
    /\ UNCHANGED <<requested, connectArgs>>
    /\ UNCHANGED <<ctlVars, streamerVars, recorderVars, emitterVars, pcmVars>>

\* the guard of sendRealtimeInput and send, with the isConnected test left out
Sendable_SessionOnly == session # 0

\* the guard of sendRealtimeInput and send
Sendable == session # 0 /\ isConnected

\* what a call on this.session does: a call on null throws
Forward(op) ==
    IF ~Sendable THEN [NoOut EXCEPT !.op = op]
    ELSE IF session = 0 THEN [NoOut EXCEPT !.op = op, !.threw = TRUE]
    ELSE [NoOut EXCEPT !.op = op, !.forwarded = TRUE]

sendRealtimeInput ==
    /\ clientOut' = Forward("sendRealtimeInput")
    /\ UNCHANGED <<session, isConnected, sessions>>
    /\ UNCHANGED <<requested, connectArgs>>
    /\ UNCHANGED <<ctlVars, streamerVars, recorderVars, emitterVars, pcmVars>>

send ==
    /\ clientOut' = Forward("send")
    /\ UNCHANGED <<session, isConnected, sessions>>
    /\ UNCHANGED <<requested, connectArgs>>
    /\ UNCHANGED <<ctlVars, streamerVars, recorderVars, emitterVars, pcmVars>>

\* onmessage: an open session delivers a message to handleMessage
onmessage(msg) ==
    /\ \E s \in SessionIds : sessions[s] = "open"
    /\ clientOut' = [op |-> "message", threw |-> HandleMessage(msg).threw,
                     forwarded |-> FALSE,
                     events |-> HandleMessage(msg).events, msg |-> msg]
    /\ UNCHANGED <<session, isConnected, sessions>>
    /\ UNCHANGED <<requested, connectArgs>>
    /\ UNCHANGED <<ctlVars, streamerVars, recorderVars, emitterVars, pcmVars>>

ClientNext ==
    \/ \E config \in ControllerConfigs : connect(config)
    \/ \E s \in SessionIds : connectOk(s)
    \/ \E s \in SessionIds : connectFail(s)
    \/ disconnect
    \/ \E s \in SessionIds : onclose(s)
    \/ \E s \in SessionIds : remoteClose(s)
    \/ sendRealtimeInput
    \/ send
    \/ \E msg \in Messages : onmessage(msg)

\* ============================================ AudioStreamer, taken alone
\* bounds: the audio clock, the buffers handed to addPCM16, the stop() calls
MaxTime == 4
MaxSegments == 3
MaxStops == 2

\* buffer.duration of a decoded chunk, in clock units
Durs == {1, 2}

\* inbound chunks: well-formed PCM16 of a given duration, text that is not
\* base64, and base64 of an odd number of bytes
AudioChunks == [kind : {"pcm"}, dur : Durs]
               \cup {[kind |-> "badBase64", dur |-> 0],
                     [kind |-> "oddLength", dur |-> 0]}

NoStreamerOut == [op |-> "none", threw |-> FALSE, complete |-> FALSE]

Max2(a, b) == IF a >= b THEN a ELSE b

\* AudioStreamer.scheduleNextBuffer on queue q at clock now: the fields it
\* leaves and whether complete was emitted
ScheduleNextBuffer(q, now, nt, srcs) ==
    IF q = <<>>
    THEN [queue |-> q, isPlaying |-> FALSE, nextTime |-> nt,
          sources |-> srcs, complete |-> TRUE]
    ELSE LET startTime == Max2(now, nt)
         IN [queue |-> Tail(q), isPlaying |-> TRUE,
             nextTime |-> startTime + Head(q),
             sources |-> Append(srcs, [start |-> startTime,
                                        dur |-> Head(q),
                                        ended |-> FALSE,
                                        stops |-> stops]),
             complete |-> FALSE]

\* the end of the interval over which source i plays
EndTime(src) == src.start + src.dur

StreamerInit ==
    /\ queue = <<>>
    /\ isPlaying = FALSE
    /\ nextTime = 0
    /\ currentTime = 0
    /\ sources = <<>>
    /\ gain = "unity"
    /\ stops = 0
    /\ streamerOut = NoStreamerOut

\* AudioStreamer.addPCM16: atob throws on text that is not base64 and the
\* Int16Array view throws on an odd byte length; nothing catches either
addPCM16(chunk) ==
    /\ Len(queue) + Len(sources) < MaxSegments
    /\ IF chunk.kind # "pcm"
       THEN /\ streamerOut' = [NoStreamerOut EXCEPT !.op = "addPCM16",
                                                    !.threw = TRUE]
            /\ UNCHANGED <<queue, isPlaying, nextTime, sources>>
       ELSE LET q == Append(queue, chunk.dur)
                r == ScheduleNextBuffer(q, currentTime, nextTime, sources)
            IN IF isPlaying
               THEN /\ queue' = q
                    /\ streamerOut' = [NoStreamerOut EXCEPT !.op = "addPCM16"]
                    /\ UNCHANGED <<isPlaying, nextTime, sources>>
               ELSE /\ queue' = r.queue
                    /\ isPlaying' = r.isPlaying
                    /\ nextTime' = r.nextTime
                    /\ sources' = r.sources
                    /\ streamerOut' = [NoStreamerOut EXCEPT
                                           !.op = "addPCM16",
                                           !.complete = r.complete]
    /\ UNCHANGED <<currentTime, gain, stops>>
    /\ UNCHANGED <<ctlVars, clientVars, recorderVars, emitterVars, pcmVars>>

\* source.onended of source i: delivered once its buffer has played out
onended(i) ==
    /\ i \in 1..Len(sources)
    /\ ~sources[i].ended
    /\ currentTime >= EndTime(sources[i])
    /\ LET srcs == [sources EXCEPT ![i].ended = TRUE]
           r == ScheduleNextBuffer(queue, currentTime, nextTime, srcs)
       IN /\ queue' = r.queue
          /\ isPlaying' = r.isPlaying
          /\ nextTime' = r.nextTime
          /\ sources' = r.sources
          /\ streamerOut' = [NoStreamerOut EXCEPT !.op = "onended",
                                                  !.complete = r.complete]
    /\ UNCHANGED <<currentTime, gain, stops>>
    /\ UNCHANGED <<ctlVars, clientVars, recorderVars, emitterVars, pcmVars>>

\* AudioStreamer.stop: the queue and the two scheduling fields are reset and
\* the gain ramp starts; the source that was started is left running
stop ==
    /\ stops < MaxStops
    /\ queue' = <<>>
    /\ isPlaying' = FALSE
    /\ nextTime' = 0
    /\ gain' = "ramp"
    /\ stops' = stops + 1
    /\ streamerOut' = [NoStreamerOut EXCEPT !.op = "stop"]
    /\ UNCHANGED <<currentTime, sources>>
    /\ UNCHANGED <<ctlVars, clientVars, recorderVars, emitterVars, pcmVars>>

\* the timer of stop() sets the gain back to 1
gainReset ==
    /\ gain = "ramp"
    /\ gain' = "unity"
    /\ streamerOut' = [NoStreamerOut EXCEPT !.op = "gainReset"]
    /\ UNCHANGED <<queue, isPlaying, nextTime, currentTime, sources, stops>>
    /\ UNCHANGED <<ctlVars, clientVars, recorderVars, emitterVars, pcmVars>>

\* the audio clock advances
advance ==
    /\ currentTime < MaxTime
    /\ currentTime' = currentTime + 1
    /\ streamerOut' = [NoStreamerOut EXCEPT !.op = "advance"]
    /\ UNCHANGED <<queue, isPlaying, nextTime, sources, gain, stops>>
    /\ UNCHANGED <<ctlVars, clientVars, recorderVars, emitterVars, pcmVars>>

StreamerNext ==
    \/ \E chunk \in AudioChunks : addPCM16(chunk)
    \/ \E i \in 1..MaxSegments : onended(i)
    \/ stop
    \/ gainReset
    \/ advance

\* ============================================ AudioRecorder, taken alone
\* bound: the start() calls that reach getUserMedia
MaxStarts == 3

ChainIds == 1..MaxStarts

\* what one start() call acquires.  track: the microphone track of its
\* stream; node: its ScriptProcessorNode; early: a stop() on the started
\* recorder returned while the call was suspended
NoChain == [track |-> "unused", node |-> "none", early |-> FALSE]

NoRecorderOut == [op |-> "none", threw |-> FALSE, emitted |-> FALSE]

RecorderInit ==
    /\ isRecording = FALSE
    /\ mediaStream = 0
    /\ processorNode = 0
    /\ chains = [c \in ChainIds |-> NoChain]
    /\ lastCall = "none"
    /\ quiet = FALSE
    /\ recorderOut = NoRecorderOut

\* start() up to its await of getUserMedia; it returns at once when the
\* recorder is recording
start ==
    /\ \E c \in ChainIds : chains[c].track = "unused"
    /\ lastCall' = "start"
    /\ recorderOut' = [NoRecorderOut EXCEPT !.op = "start"]
    /\ IF isRecording
       THEN UNCHANGED chains
       ELSE LET c == Min({d \in ChainIds : chains[d].track = "unused"})
            IN chains' = [chains EXCEPT ![c].track = "pending"]
    /\ UNCHANGED <<isRecording, mediaStream, processorNode, quiet>>
    /\ UNCHANGED <<ctlVars, clientVars, streamerVars, emitterVars, pcmVars>>

\* getUserMedia of call c resolves: the stream, the context and the nodes
\* are stored over whatever the fields hold, then isRecording is set
startOk(c) ==
    /\ chains[c].track = "pending"
    /\ chains' = [chains EXCEPT ![c].track = "live", ![c].node = "connected"]
    /\ mediaStream' = c
    /\ processorNode' = c
    /\ isRecording' = TRUE
    /\ quiet' = (quiet /\ chains[c].early)
    /\ recorderOut' = [NoRecorderOut EXCEPT !.op = "startOk"]
    /\ UNCHANGED lastCall
    /\ UNCHANGED <<ctlVars, clientVars, streamerVars, emitterVars, pcmVars>>

\* getUserMedia of call c rejects: start() logs and rethrows
startFail(c) ==
    /\ chains[c].track = "pending"
    /\ chains' = [chains EXCEPT ![c].track = "denied"]
    /\ recorderOut' = [NoRecorderOut EXCEPT !.op = "startFail",
                                            !.threw = TRUE]
    /\ UNCHANGED <<isRecording, mediaStream, processorNode, lastCall, quiet>>
    /\ UNCHANGED <<ctlVars, clientVars, streamerVars, emitterVars, pcmVars>>

\* AudioRecorder.stop: only what the fields reference is released
Released(ch, c) ==
    [ch EXCEPT ![c].track = IF c = mediaStream THEN "stopped" ELSE @,
               ![c].node = IF c = processorNode THEN "disconnected" ELSE @]

stopRecorder ==
    /\ isRecording' = FALSE
    /\ chains' = [c \in ChainIds |->
                     [Released(chains, c)[c] EXCEPT
                         !.early = @ \/ (isRecording
                                         /\ chains[c].track = "pending")]]
    /\ mediaStream' = 0
    /\ processorNode' = 0
    /\ lastCall' = "stop"
    /\ quiet' = (quiet \/ isRecording)
    /\ recorderOut' = [NoRecorderOut EXCEPT !.op = "stop"]
    /\ UNCHANGED <<ctlVars, clientVars, streamerVars, emitterVars, pcmVars>>

\* onaudioprocess of the node of call c: the node is connected, or it was
\* disconnected with a callback already pending.  The callback returns at
\* once unless isRecording is set.
Emits == isRecording

onaudioprocess(c) ==
    /\ chains[c].node \in {"connected", "disconnected"}
    /\ recorderOut' = [NoRecorderOut EXCEPT !.op = "onaudioprocess",
                                            !.emitted = Emits]
    /\ UNCHANGED <<isRecording, mediaStream, processorNode, chains,
                   lastCall, quiet>>
    /\ UNCHANGED <<ctlVars, clientVars, streamerVars, emitterVars, pcmVars>>

RecorderNext ==
    \/ start
    \/ \E c \in ChainIds : startOk(c)
    \/ \E c \in ChainIds : startFail(c)
    \/ stopRecorder
    \/ \E c \in ChainIds : onaudioprocess(c)

\* ============================== on / off / emit of LiveClient, AudioStreamer
\* bound: the registrations explored on one emitter
MaxRegs == 4

\* two of the event kinds, three callbacks.  A callback returns normally;
\* none calls on or off of the emitter it is called by.
Kinds == {"audio", "content"}
Callbacks == {"f", "g", "h"}

\* Set.prototype.add putting a new element first
SetAdd_Front(set, cb) ==
    IF \E i \in 1..Len(set) : set[i] = cb THEN set ELSE <<cb>> \o set

\* Set.prototype.add: a new element goes last, an element already in the
\* Set keeps its place
SetAdd(set, cb) ==
    IF \E i \in 1..Len(set) : set[i] = cb THEN set ELSE Append(set, cb)

\* Set.prototype.delete
SetDelete(set, cb) == SelectSeq(set, LAMBDA x : x # cb)

NoInvoked == [kind |-> "none", calls |-> <<>>]

EmitterInit ==
    /\ listeners = [e \in Kinds |-> <<>>]
    /\ invoked = NoInvoked
    /\ regAt = [e \in Kinds |-> [cb \in Callbacks |-> 0]]
    /\ regs = 0

\* on(event, callback)
on(event, cb) ==
    /\ regs < MaxRegs
    /\ listeners' = [listeners EXCEPT ![event] = SetAdd(@, cb)]
    /\ regs' = regs + 1
    /\ regAt' = IF regAt[event][cb] = 0
                THEN [regAt EXCEPT ![event][cb] = regs + 1]
                ELSE regAt
    /\ invoked' = NoInvoked
    /\ UNCHANGED <<ctlVars, clientVars, streamerVars, recorderVars, pcmVars>>

\* off(event, callback)
off(event, cb) ==
    /\ listeners' = [listeners EXCEPT ![event] = SetDelete(@, cb)]
    /\ regAt' = [regAt EXCEPT ![event][cb] = 0]
    /\ invoked' = NoInvoked
    /\ UNCHANGED regs
    /\ UNCHANGED <<ctlVars, clientVars, streamerVars, recorderVars, pcmVars>>

\* emit(event): forEach over the Set of the kind
emit(event) ==
    /\ invoked' = [kind |-> event, calls |-> listeners[event]]
    /\ UNCHANGED <<listeners, regAt, regs>>
    /\ UNCHANGED <<ctlVars, clientVars, streamerVars, recorderVars, pcmVars>>

EmitterNext ==
    \/ \E event \in Kinds, cb \in Callbacks : on(event, cb)
    \/ \E event \in Kinds, cb \in Callbacks : off(event, cb)
    \/ \E event \in Kinds : emit(event)

\* ================================ PCM16: recorder quantizer, streamer dequantizer
\* bound: samples are the multiples of 1/SampleScale in [-2, 2], besides
\* NaN and the two infinities
SampleScale == 64

\* 0x8000 and 0x7fff of the quantizer, 32768 of the dequantizer
NegScale == 32768
PosScale == 32767
DequantScale == 32768

\* a Float32 sample: n / SampleScale, NaN, or the infinity of the sign of n
Samples ==
    {[kind |-> "num", n |-> n] : n \in (0 - 2 * SampleScale)..(2 * SampleScale)}
        \cup {[kind |-> "nan", n |-> 0], [kind |-> "inf", n |-> 1],
               [kind |-> "inf", n |-> 0 - 1]}

\* Math.max(-1, Math.min(1, x)); NaN stays NaN
Clamp(x) ==
    IF x.kind = "nan" THEN x
    ELSE IF x.kind = "inf"
         THEN [kind |-> "num", n |-> x.n * SampleScale]
    ELSE IF x.n > SampleScale THEN [kind |-> "num", n |-> SampleScale]
    ELSE IF x.n < 0 - SampleScale THEN [kind |-> "num", n |-> 0 - SampleScale]
    ELSE x

\* the integer part of a / b, b > 0 (truncation towards zero)
Trunc(a, b) == IF a >= 0 THEN a \div b ELSE 0 - ((0 - a) \div b)

\* the value an Int16Array element takes when v is stored in it
ToInt16(v) == ((v + 32768) % 65536) - 32768

\* the quantizer with the scale of the negative side on both sides
Quantize_OneScale(x) ==
    LET s == Clamp(x)
    IN IF s.kind = "nan" THEN 0
       ELSE ToInt16(Trunc(s.n * NegScale, SampleScale))

\* int16Data[i] = s < 0 ? s * 0x8000 : s * 0x7fff.  NaN is stored as 0
Quantize(x) ==
    LET s == Clamp(x)
    IN IF s.kind = "nan" THEN 0
       ELSE ToInt16(Trunc(IF s.n < 0 THEN s.n * NegScale
                          ELSE s.n * PosScale, SampleScale))

\* float32Data[i] = int16Data[i] / 32768, in units of 1 / DequantScale (the
\* quotient is a Float32 value as it stands)
Dequantize(q) == q

PcmInit ==
    /\ inputData = [kind |-> "num", n |-> 0]
    /\ int16Data = 0
    /\ float32Data = 0
    /\ pcmOut = "none"

\* onaudioprocess converts a sample; the streamer has no element of it yet
quantize(x) ==
    /\ inputData' = x
    /\ int16Data' = Quantize(x)
    /\ float32Data' = 0
    /\ pcmOut' = "quantized"
    /\ UNCHANGED <<ctlVars, clientVars, streamerVars, recorderVars,
                   emitterVars>>

\* addPCM16 converts the element back
dequantize ==
    /\ pcmOut = "quantized"
    /\ float32Data' = Dequantize(int16Data)
    /\ pcmOut' = "played"
    /\ UNCHANGED <<inputData, int16Data>>
    /\ UNCHANGED <<ctlVars, clientVars, streamerVars, recorderVars,
                   emitterVars>>

PcmNext ==
    \/ \E x \in Samples : quantize(x)
    \/ dequantize

\* ------------------------------------------------------------------ Init
Init ==
    /\ state = "idle"
    /\ capturedObject = NoObject
    /\ capturedImagePreview = NoFrame
    /\ processingCapture = FALSE
    /\ stableFrameCount = 0
    /\ previousFrameData = FALSE
    /\ transcriptBuffer = <<>>
    /\ transcribedMemory = <<>>
    /\ scanningTimeout = "null"
    /\ videoSrc = FALSE
    /\ streamRef = FALSE
    /\ cameraLeak = FALSE
    /\ streamerOpen = FALSE
    /\ micOpen = FALSE
    /\ intervalSet = FALSE
    /\ clientRef = FALSE
    /\ client = NewClient
    /\ orphanOpen = FALSE
    /\ startPc = "none"
    /\ analyses = [f \in Frames |-> 0]
    /\ reconnects = 0
    /\ orphanReconnects = 0
    /\ inserts = 0
    /\ lastInsert = NoRow
    /\ runs = 0
    /\ hist = NoHist
    /\ triggers = 0
    /\ ctlOut = NoCtlOut
    /\ ClientInit
    /\ StreamerInit
    /\ RecorderInit
    /\ EmitterInit
    /\ PcmInit

\* ----------------------------------------------------------- stopLiveCapture
\* the routine clears the scanning timeout; its frame-interval branch is
\* empty and nothing else follows it
stopLiveCapture(resetAll) ==
    scanningTimeout' = "null"

\* ------------------------------------------------------- startLiveCapture
\* the start button is rendered in idle only; the reset block runs up to the
\* await of getUserMedia.  A start is explored only when no earlier call of
\* startLiveCapture is still suspended.
Start(maxRuns) ==
    /\ state = "idle"
    /\ startPc = "none"
    /\ runs < maxRuns
    /\ runs' = runs + 1
    /\ scanningTimeout' = IF scanningTimeout = "null" THEN "null" ELSE "stale"
    /\ capturedObject' = NoObject
    /\ previousFrameData' = FALSE
    /\ stableFrameCount' = 0
    /\ processingCapture' = FALSE
    /\ capturedImagePreview' = NoFrame
    /\ transcribedMemory' = <<>>
    /\ state' = "scanning"
    /\ videoSrc' = FALSE
    /\ startPc' = "camera"
    /\ hist' = NoHist
    /\ UNCHANGED <<transcriptBuffer, streamRef, cameraLeak, streamerOpen,
                   micOpen, intervalSet, clientRef, client, orphanOpen,
                   analyses, reconnects, orphanReconnects, inserts,
                   lastInsert>>
    /\ UNCHANGED compVars
    /\ ctlOut' = NoCtlOut
    /\ UNCHANGED triggers

\* the catch block of startLiveCapture
StartCatch ==
    /\ state' = "idle"
    /\ videoSrc' = FALSE
    /\ startPc' = "none"

\* getUserMedia(video) resolves; the streamer is created and resume() awaited
StartCameraOk ==
    /\ startPc = "camera"
    /\ streamRef' = TRUE
    /\ cameraLeak' = (cameraLeak \/ streamRef)
    /\ videoSrc' = VideoMounted(state, capturedImagePreview)
    /\ streamerOpen' = TRUE
    /\ startPc' = "resume"
    /\ UNCHANGED <<state, capturedObject, capturedImagePreview,
                   processingCapture, stableFrameCount, previousFrameData,
                   transcriptBuffer, transcribedMemory, scanningTimeout,
                   micOpen, intervalSet, clientRef, client, orphanOpen,
                   analyses, reconnects, orphanReconnects, inserts,
                   lastInsert, runs, hist>>
    /\ UNCHANGED compVars
    /\ ctlOut' = NoCtlOut
    /\ UNCHANGED triggers

\* getUserMedia(video) rejects
StartCameraFail ==
    /\ startPc = "camera"
    /\ StartCatch
    /\ UNCHANGED <<capturedObject, capturedImagePreview, processingCapture,
                   stableFrameCount, previousFrameData, transcriptBuffer,
                   transcribedMemory, scanningTimeout, streamRef, cameraLeak,
                   streamerOpen, micOpen, intervalSet, clientRef, client,
                   orphanOpen, analyses, reconnects, orphanReconnects,
                   inserts, lastInsert, runs, hist>>
    /\ UNCHANGED compVars
    /\ ctlOut' = NoCtlOut
    /\ UNCHANGED triggers

\* resume() resolves; recorder and client are created, the handlers are
\* registered and connect() is called
StartResumed ==
    /\ startPc = "resume"
    /\ clientRef' = TRUE
    /\ client' = NewClient
    /\ orphanOpen' = (orphanOpen \/ (clientRef /\ HasOpenSession(client)))
    /\ orphanReconnects' = orphanReconnects + reconnects
    /\ reconnects' = 0
    /\ startPc' = "connect"
    /\ UNCHANGED <<state, capturedObject, capturedImagePreview,
                   processingCapture, stableFrameCount, previousFrameData,
                   transcriptBuffer, transcribedMemory, scanningTimeout,
                   videoSrc, streamRef, cameraLeak, streamerOpen, micOpen,
                   intervalSet, analyses, inserts, lastInsert, runs, hist>>
    /\ UNCHANGED compVars
    /\ ctlOut' = NoCtlOut
    /\ UNCHANGED triggers

\* connect() resolves; the timers are armed and recorder.start() is awaited
StartConnectOk ==
    /\ startPc = "connect"
    /\ client' = Connected(client)
    /\ scanningTimeout' = "armed"
    /\ startPc' = "recorder"
    /\ UNCHANGED <<state, capturedObject, capturedImagePreview,
                   processingCapture, stableFrameCount, previousFrameData,
                   transcriptBuffer, transcribedMemory, videoSrc, streamRef,
                   cameraLeak, streamerOpen, micOpen, intervalSet, clientRef,
                   orphanOpen, analyses, reconnects, orphanReconnects,
                   inserts, lastInsert, runs, hist>>
    /\ UNCHANGED compVars
    /\ ctlOut' = NoCtlOut
    /\ UNCHANGED triggers

\* connect() rejects
StartConnectFail ==
    /\ startPc = "connect"
    /\ StartCatch
    /\ UNCHANGED <<capturedObject, capturedImagePreview, processingCapture,
                   stableFrameCount, previousFrameData, transcriptBuffer,
                   transcribedMemory, scanningTimeout, streamRef, cameraLeak,
                   streamerOpen, micOpen, intervalSet, clientRef, client,
                   orphanOpen, analyses, reconnects, orphanReconnects,
                   inserts, lastInsert, runs, hist>>
    /\ UNCHANGED compVars
    /\ ctlOut' = NoCtlOut
    /\ UNCHANGED triggers

\* recorder.start() resolves (microphone granted); the frame interval is set
StartRecorderOk ==
    /\ startPc = "recorder"
    /\ micOpen' = TRUE
    /\ intervalSet' = TRUE
    /\ startPc' = "none"
    /\ UNCHANGED <<state, capturedObject, capturedImagePreview,
                   processingCapture, stableFrameCount, previousFrameData,
                   transcriptBuffer, transcribedMemory, scanningTimeout,
                   videoSrc, streamRef, cameraLeak, streamerOpen, clientRef,
                   client, orphanOpen, analyses, reconnects,
                   orphanReconnects, inserts, lastInsert, runs, hist>>
    /\ UNCHANGED compVars
    /\ ctlOut' = NoCtlOut
    /\ UNCHANGED triggers

\* recorder.start() rejects (microphone refused)
StartRecorderFail ==
    /\ startPc = "recorder"
    /\ StartCatch
    /\ UNCHANGED <<capturedObject, capturedImagePreview, processingCapture,
                   stableFrameCount, previousFrameData, transcriptBuffer,
                   transcribedMemory, scanningTimeout, streamRef, cameraLeak,
                   streamerOpen, micOpen, intervalSet, clientRef, client,
                   orphanOpen, analyses, reconnects, orphanReconnects,
                   inserts, lastInsert, runs, hist>>
    /\ UNCHANGED compVars
    /\ ctlOut' = NoCtlOut
    /\ UNCHANGED triggers

\* --------------------------------------------------- frame analysis loop
\* isFrameStable taking the first frame of a run as stable
FrameStable_NoFirst(diffLow) == diffLow

\* isFrameStable: the first frame of a run only fills previousFrameData
FrameStable(diffLow) == previousFrameData /\ diffLow

\* a tick of a frame interval that finds no video element or a video that
\* is not ready: the callback returns at once
TickNotReady ==
    /\ intervalSet
    /\ ctlOut' = NoCtlOut
    /\ UNCHANGED <<state, capturedObject, capturedImagePreview,
                   processingCapture, stableFrameCount, previousFrameData,
                   transcriptBuffer, transcribedMemory, scanningTimeout,
                   videoSrc, streamRef, cameraLeak, streamerOpen, micOpen,
                   intervalSet, clientRef, client, orphanOpen, startPc,
                   analyses, reconnects, orphanReconnects, inserts,
                   lastInsert, runs, hist, triggers>>
    /\ UNCHANGED compVars

\* the tick hands the reduced frame to the session: nothing captured, no
\* capture flagged and the client connected
ForwardsFrame ==
    /\ capturedObject = NoObject
    /\ ~processingCapture
    /\ clientRef
    /\ CanSend(client)

\* one tick of a frame interval on which the video is mounted and ready.
\* diffLow: the pixel difference is below the threshold; grabOk: the canvas
\* yields a frame.
Tick(diffLow, grabOk) ==
    /\ intervalSet
    /\ VideoMounted(state, capturedImagePreview)
    /\ videoSrc
    /\ FrameStable(diffLow) => stableFrameCount < MaxStable
    /\ previousFrameData' = TRUE
    /\ LET count == IF FrameStable(diffLow) THEN stableFrameCount + 1 ELSE 0
           capture == /\ capturedObject = NoObject
                      /\ ~processingCapture
                      /\ count >= STABLE_FRAMES_REQUIRED
       IN /\ stableFrameCount' = IF capture THEN 0 ELSE count
          /\ scanningTimeout' = IF capture THEN "null" ELSE scanningTimeout
          /\ processingCapture' = IF capture THEN grabOk ELSE processingCapture
          /\ analyses' = IF capture /\ grabOk
                         THEN [analyses EXCEPT ![Frame] = @ + 1]
                         ELSE analyses
    /\ hist' = [hist EXCEPT !.streak =
                    IF FrameStable(diffLow)
                    THEN Min({@ + 1, STABLE_FRAMES_REQUIRED})
                    ELSE 0]
    /\ ctlOut' = [NoCtlOut EXCEPT !.sent =
                      IF ForwardsFrame /\ grabOk THEN "frame" ELSE "none"]
    /\ UNCHANGED <<state, capturedObject, capturedImagePreview,
                   transcriptBuffer, transcribedMemory, videoSrc, streamRef,
                   cameraLeak, streamerOpen, micOpen, intervalSet, clientRef,
                   client, orphanOpen, startPc, reconnects, orphanReconnects,
                   inserts, lastInsert, runs, triggers>>
    /\ UNCHANGED compVars

\* the test of the description in the continuation, passing everything
Usable_Always(d) == TRUE

\* the test of the description in the continuation
Usable(d) == d # Null

\* generateDescription(fullFrame) resolves with a description or with null;
\* the .then continuation runs up to its await of connect()
AnalysisDone(f, d) ==
    /\ analyses[f] > 0
    /\ analyses' = [analyses EXCEPT ![f] = @ - 1]
    /\ ctlOut' = [NoCtlOut EXCEPT !.aborted = ~Usable(d)]
    /\ UNCHANGED triggers
    /\ IF Usable(d)
       THEN /\ capturedObject' = [imageBase64 |-> f, description |-> d]
            /\ streamRef' = FALSE
            /\ capturedImagePreview' = f
            /\ state' = "recording"
            /\ videoSrc' = FALSE
            /\ hist' = [hist EXCEPT !.captures =
                            IF capturedObject = NoObject THEN @ + 1 ELSE @]
            /\ IF clientRef
               THEN /\ client' = Disconnect(client)
                    /\ reconnects' = reconnects + 1
                    /\ UNCHANGED processingCapture
               ELSE /\ processingCapture' = FALSE
                    /\ UNCHANGED <<client, reconnects>>
       ELSE /\ processingCapture' = FALSE
            /\ UNCHANGED <<capturedObject, streamRef, capturedImagePreview,
                           state, videoSrc, hist, client, reconnects>>
    /\ UNCHANGED <<stableFrameCount, previousFrameData, transcriptBuffer,
                   transcribedMemory, scanningTimeout, cameraLeak,
                   streamerOpen, micOpen, intervalSet, clientRef, orphanOpen,
                   startPc, orphanReconnects, inserts, lastInsert, runs>>
    /\ UNCHANGED compVars

\* the mode-switch connect() settles on the client in clientRef; ok: the new
\* session is open.  The continuation then clears the processing flag.
ReconnectDone(ok) ==
    /\ reconnects > 0
    /\ reconnects' = reconnects - 1
    /\ client' = IF ok THEN Connected(client) ELSE client
    /\ processingCapture' = FALSE
    /\ triggers' = IF ok THEN triggers + 1 ELSE triggers
    /\ ctlOut' = NoCtlOut
    /\ UNCHANGED <<state, capturedObject, capturedImagePreview,
                   stableFrameCount, previousFrameData, transcriptBuffer,
                   transcribedMemory, scanningTimeout, videoSrc, streamRef,
                   cameraLeak, streamerOpen, micOpen, intervalSet, clientRef,
                   orphanOpen, startPc, analyses, orphanReconnects, inserts,
                   lastInsert, runs, hist>>
    /\ UNCHANGED compVars

\* the same on a client that clientRef no longer references
OrphanReconnectDone(ok) ==
    /\ orphanReconnects > 0
    /\ orphanReconnects' = orphanReconnects - 1
    /\ orphanOpen' = (orphanOpen \/ ok)
    /\ processingCapture' = FALSE
    /\ triggers' = IF ok THEN triggers + 1 ELSE triggers
    /\ ctlOut' = NoCtlOut
    /\ UNCHANGED <<state, capturedObject, capturedImagePreview,
                   stableFrameCount, previousFrameData, transcriptBuffer,
                   transcribedMemory, scanningTimeout, videoSrc, streamRef,
                   cameraLeak, streamerOpen, micOpen, intervalSet, clientRef,
                   client, startPc, analyses, reconnects, inserts,
                   lastInsert, runs, hist>>
    /\ UNCHANGED compVars

\* ------------------------------------------------------------ handleDone
\* MemoryText without the fallback text
MemoryText_NoFallback(t) == t

MemoryText(t) == IF t # <<>> THEN t ELSE Placeholder

InsertRow(obj, t) ==
    [object_image_base64 |-> obj.imageBase64,
     object_description |-> obj.description,
     object_memory |-> MemoryText(t)]

\* the done button is rendered in recording only; the handler runs up to
\* its await of the insert
Done ==
    /\ state = "recording"
    /\ stopLiveCapture(capturedObject = NoObject)
    /\ IF capturedObject = NoObject
       THEN UNCHANGED <<state, inserts, lastInsert, hist>>
       ELSE /\ state' = "saving"
            /\ inserts' = inserts + 1
            /\ lastInsert' = InsertRow(capturedObject, transcribedMemory)
            /\ hist' = [hist EXCEPT !.saves = @ + 1]
    /\ UNCHANGED <<capturedObject, capturedImagePreview, processingCapture,
                   stableFrameCount, previousFrameData, transcriptBuffer,
                   transcribedMemory, videoSrc, streamRef, cameraLeak,
                   streamerOpen, micOpen, intervalSet, clientRef, client,
                   orphanOpen, startPc, analyses, reconnects,
                   orphanReconnects, runs>>
    /\ UNCHANGED compVars
    /\ ctlOut' = NoCtlOut
    /\ UNCHANGED triggers

\* the insert settles (with or without an error): reset to idle
InsertDone ==
    /\ inserts > 0
    /\ inserts' = inserts - 1
    /\ state' = "idle"
    /\ capturedImagePreview' = NoFrame
    /\ transcribedMemory' = <<>>
    /\ capturedObject' = NoObject
    /\ videoSrc' = FALSE
    /\ UNCHANGED <<processingCapture, stableFrameCount, previousFrameData,
                   transcriptBuffer, scanningTimeout, streamRef, cameraLeak,
                   streamerOpen, micOpen, intervalSet, clientRef, client,
                   orphanOpen, startPc, analyses, reconnects,
                   orphanReconnects, lastInsert, runs, hist>>
    /\ UNCHANGED compVars
    /\ ctlOut' = NoCtlOut
    /\ UNCHANGED triggers

\* ---------------------------------------------------------- handleCancel
\* the cancel button is rendered in scanning only
Cancel ==
    /\ state = "scanning"
    /\ stopLiveCapture(TRUE)
    /\ UNCHANGED <<state, capturedObject, capturedImagePreview,
                   processingCapture, stableFrameCount, previousFrameData,
                   transcriptBuffer, transcribedMemory, videoSrc, streamRef,
                   cameraLeak, streamerOpen, micOpen, intervalSet, clientRef,
                   client, orphanOpen, startPc, analyses, reconnects,
                   orphanReconnects, inserts, lastInsert, runs, hist>>
    /\ UNCHANGED compVars
    /\ ctlOut' = NoCtlOut
    /\ UNCHANGED triggers

\* ------------------------------------------------------- session events
\* a text part arrives on a session that is still open (the handler is the
\* same closure over the refs for every client the component created)
Content(text) ==
    /\ SessionOpen
    /\ capturedObject # NoObject
    /\ Len(transcriptBuffer) + Len(text) <= MaxBuf
    /\ transcriptBuffer' = transcriptBuffer \o text
    /\ transcribedMemory' = Extract(transcriptBuffer \o text, transcribedMemory)
    /\ UNCHANGED <<state, capturedObject, capturedImagePreview,
                   processingCapture, stableFrameCount, previousFrameData,
                   scanningTimeout, videoSrc, streamRef, cameraLeak,
                   streamerOpen, micOpen, intervalSet, clientRef, client,
                   orphanOpen, startPc, analyses, reconnects,
                   orphanReconnects, inserts, lastInsert, runs, hist>>
    /\ UNCHANGED compVars
    /\ ctlOut' = NoCtlOut
    /\ UNCHANGED triggers

\* the onclose callback of a session closed by disconnect() is delivered
CloseCallback ==
    /\ client.closing > 0
    /\ client' = [client EXCEPT !.closing = @ - 1, !.isConnected = FALSE]
    /\ UNCHANGED <<state, capturedObject, capturedImagePreview,
                   processingCapture, stableFrameCount, previousFrameData,
                   transcriptBuffer, transcribedMemory, scanningTimeout,
                   videoSrc, streamRef, cameraLeak, streamerOpen, micOpen,
                   intervalSet, clientRef, orphanOpen, startPc, analyses,
                   reconnects, orphanReconnects, inserts, lastInsert, runs,
                   hist>>
    /\ UNCHANGED compVars
    /\ ctlOut' = NoCtlOut
    /\ UNCHANGED triggers

\* the transport of the referenced session fails: onerror (the handler only
\* logs), then onclose
SessionError ==
    /\ clientRef
    /\ client.session = "open"
    /\ client' = [client EXCEPT !.session = "dead", !.isConnected = FALSE]
    /\ UNCHANGED <<state, capturedObject, capturedImagePreview,
                   processingCapture, stableFrameCount, previousFrameData,
                   transcriptBuffer, transcribedMemory, scanningTimeout,
                   videoSrc, streamRef, cameraLeak, streamerOpen, micOpen,
                   intervalSet, clientRef, orphanOpen, startPc, analyses,
                   reconnects, orphanReconnects, inserts, lastInsert, runs,
                   hist>>
    /\ UNCHANGED compVars
    /\ ctlOut' = NoCtlOut
    /\ UNCHANGED triggers

\* the 5 s steadiness reminder fires; the handle stays in the ref
ScanningTimeoutFires ==
    /\ scanningTimeout = "armed"
    /\ scanningTimeout' = "stale"
    /\ UNCHANGED <<state, capturedObject, capturedImagePreview,
                   processingCapture, stableFrameCount, previousFrameData,
                   transcriptBuffer, transcribedMemory, videoSrc, streamRef,
                   cameraLeak, streamerOpen, micOpen, intervalSet, clientRef,
                   client, orphanOpen, startPc, analyses, reconnects,
                   orphanReconnects, inserts, lastInsert, runs, hist>>
    /\ UNCHANGED compVars
    /\ ctlOut' = NoCtlOut
    /\ UNCHANGED triggers

\* ------------------------------------------------- outbound media, trigger
\* the data handler hands the chunk to the client in clientRef only once an
\* object is captured
ForwardsAudio ==
    /\ capturedObject # NoObject
    /\ clientRef
    /\ CanSend(client)

\* a running recorder of the component emits a chunk
RecorderData ==
    /\ micOpen
    /\ ctlOut' = [NoCtlOut EXCEPT !.sent =
                      IF ForwardsAudio THEN "audio" ELSE "none"]
    /\ UNCHANGED <<state, capturedObject, capturedImagePreview,
                   processingCapture, stableFrameCount, previousFrameData,
                   transcriptBuffer, transcribedMemory, scanningTimeout,
                   videoSrc, streamRef, cameraLeak, streamerOpen, micOpen,
                   intervalSet, clientRef, client, orphanOpen, startPc,
                   analyses, reconnects, orphanReconnects, inserts,
                   lastInsert, runs, hist, triggers>>
    /\ UNCHANGED compVars

\* the 500 ms timer armed after the mode-switch connect fires: send() on the
\* client in clientRef
TriggerFires ==
    /\ triggers > 0
    /\ triggers' = triggers - 1
    /\ ctlOut' = [NoCtlOut EXCEPT !.sent =
                      IF clientRef /\ CanSend(client) THEN "trigger"
                      ELSE "none"]
    /\ UNCHANGED <<state, capturedObject, capturedImagePreview,
                   processingCapture, stableFrameCount, previousFrameData,
                   transcriptBuffer, transcribedMemory, scanningTimeout,
                   videoSrc, streamRef, cameraLeak, streamerOpen, micOpen,
                   intervalSet, clientRef, client, orphanOpen, startPc,
                   analyses, reconnects, orphanReconnects, inserts,
                   lastInsert, runs, hist>>
    /\ UNCHANGED compVars

\* ------------------------------------------------------------------ Next
\* the operations that do not touch the transcript
Control ==
    \/ StartCameraOk
    \/ StartCameraFail
    \/ StartResumed
    \/ StartConnectOk
    \/ StartConnectFail
    \/ StartRecorderOk
    \/ StartRecorderFail
    \/ TickNotReady
    \/ \E diffLow \in BOOLEAN, grabOk \in BOOLEAN : Tick(diffLow, grabOk)
    \/ \E f \in Frames, d \in Descs \cup {Null} : AnalysisDone(f, d)
    \/ \E ok \in BOOLEAN : ReconnectDone(ok)
    \/ \E ok \in BOOLEAN : OrphanReconnectDone(ok)
    \/ Done
    \/ InsertDone
    \/ Cancel
    \/ CloseCallback
    \/ SessionError
    \/ ScanningTimeoutFires
    \/ RecorderData
    \/ TriggerFires

\* the controller over several runs; inbound text, which changes the two
\* transcript fields only and is read by no guard, is left to SpecTx
Next ==
    \/ Start(MaxRuns)
    \/ Control

Spec == Init /\ [][Next]_vars

\* the controller with inbound text, over runs in which start succeeds, no
\* session fails and the mode-switch connect has settled before the next
\* start
NextTx ==
    \/ (reconnects = 0 /\ Start(MaxRunsTx))
    \/ StartCameraOk
    \/ StartResumed
    \/ StartConnectOk
    \/ StartRecorderOk
    \/ \E diffLow \in BOOLEAN, grabOk \in BOOLEAN : Tick(diffLow, grabOk)
    \/ \E f \in Frames, d \in Descs \cup {Null} : AnalysisDone(f, d)
    \/ \E ok \in BOOLEAN : ReconnectDone(ok)
    \/ Done
    \/ InsertDone
    \/ RecorderData
    \/ TriggerFires
    \/ \E text \in Chunks : Content(text)

SpecTx == Init /\ [][NextTx]_vars

\* SpecTx with one more run, so that a run follows a run that received text
NextTx2 ==
    \/ (reconnects = 0 /\ Start(MaxRunsTx + 1))
    \/ StartCameraOk
    \/ StartResumed
    \/ StartConnectOk
    \/ StartRecorderOk
    \/ \E diffLow \in BOOLEAN, grabOk \in BOOLEAN : Tick(diffLow, grabOk)
    \/ \E f \in Frames, d \in Descs \cup {Null} : AnalysisDone(f, d)
    \/ \E ok \in BOOLEAN : ReconnectDone(ok)
    \/ Done
    \/ InsertDone
    \/ \E text \in Chunks : Content(text)

SpecTx2 == Init /\ [][NextTx2]_vars

\* one LiveClient, one AudioStreamer, one AudioRecorder under every
\* interleaving of their calls and callbacks
SpecClient == Init /\ [][ClientNext]_vars

\* connect() under every config, with the calls and callbacks that open and
\* close sessions
ConfigNext ==
    \/ \E config \in Configs : connect(config)
    \/ \E s \in SessionIds : connectOk(s)
    \/ \E s \in SessionIds : connectFail(s)
    \/ disconnect
    \/ \E s \in SessionIds : onclose(s)

SpecConfig == Init /\ [][ConfigNext]_vars
SpecStreamer == Init /\ [][StreamerNext]_vars
SpecRecorder == Init /\ [][RecorderNext]_vars

\* one emitter under every order of on, off and emit; one sample through
\* the two conversions
SpecEmitter == Init /\ [][EmitterNext]_vars
SpecPcm == Init /\ [][PcmNext]_vars

\* ================================================================ claims
\* some resource the component acquired is still held
HoldsResource ==
    \/ intervalSet
    \/ streamRef
    \/ cameraLeak
    \/ micOpen
    \/ streamerOpen
    \/ SessionOpen

\* a step that issues an insert
InsertIssued == hist'.saves = hist.saves + 1

\* a step in which startLiveCapture ends in its catch block
StartFails == StartCameraFail \/ StartConnectFail \/ StartRecorderFail

\* C1: within a run capturedObject goes from null to non-null at most once,
\* and a tick starts an analysis call only while capturedObject is null and
\* no analysis call is in flight
C1_AtMostOneCapture ==
    [][/\ (\E f \in Frames : analyses'[f] > analyses[f])
            => (capturedObject = NoObject /\ InFlight = 0)
       /\ (state # "idle" /\ capturedObject = NoObject
                          /\ capturedObject' # NoObject)
            => hist.captures = 0]_vars

\* C2: when a cancel, a done or an error path has completed, no frame timer,
\* camera track, microphone track, audio output device or session is open
C2_PathsReleaseAll ==
    [][(Cancel \/ InsertDone \/ StartFails) => ~HoldsResource']_vars

\* C3: the step that issues the insert enters saving with camera, microphone
\* and session already torn down
C3_TeardownBeforeInsert ==
    [][InsertIssued => /\ state' = "saving"
                       /\ ~streamRef' /\ ~cameraLeak'
                       /\ ~micOpen'
                       /\ ~SessionOpen']_vars

\* C4: after a chunk that carries a complete memory field, the transcript is
\* the value that chunk carries
C4_LastWriteWins ==
    [][\A text \in {MemA, MemAB} :
          Content(text) => transcribedMemory' = MemoryMatch(text).text]_vars

\* C5: a run issues at most one insert, the insert carries the captured
\* image, the captured description and the transcript held when done was
\* triggered, and a run that ends without a capture issues none
C5_PersistOnce ==
    [][/\ InsertIssued =>
            /\ hist.saves = 0
            /\ lastInsert'.object_image_base64 = capturedObject.imageBase64
            /\ lastInsert'.object_description = capturedObject.description
            /\ transcribedMemory # <<>>
                 => lastInsert'.object_memory = transcribedMemory
       /\ (state # "idle" /\ state' = "idle" /\ hist.captures = 0)
            => hist.saves = 0]_vars

\* C6: done with a captured object and an empty transcript issues the insert
\* with the placeholder text; no insert carries an empty memory text
C6_PlaceholderOnEmpty ==
    [][/\ (state = "recording" /\ state' = "saving"
             /\ capturedObject # NoObject /\ transcribedMemory = <<>>)
            => /\ InsertIssued
               /\ inserts' = inserts + 1
               /\ lastInsert'.object_memory = Placeholder
       /\ InsertIssued => lastInsert'.object_memory # <<>>]_vars

\* C6 witness: an insert was issued while the transcript was empty
C6_Witness ==
    /\ state = "saving"
    /\ inserts = 1
    /\ transcribedMemory = <<>>
    /\ lastInsert.object_memory = Placeholder

\* C7: cancel returns to idle with capturedObject null and no insert, and
\* idle is left only by the next start
C7_CancelToIdle ==
    [][/\ Cancel => /\ state' = "idle"
                    /\ capturedObject' = NoObject
                    /\ ~InsertIssued
       /\ (state = "idle" /\ state' # "idle") => runs' = runs + 1]_vars

\* C8: a start that fails after acquiring resources releases them before it
\* reports the error
C8_FailedStartReleases ==
    [][StartFails => /\ ~streamRef' /\ ~cameraLeak'
                     /\ ~streamerOpen'
                     /\ ~micOpen'
                     /\ ~SessionOpen']_vars

\* C9: in idle the controller holds no resource
C9_IdleHoldsNothing == state = "idle" => ~HoldsResource

\* the phase of section 4.4: the component has no connecting value; the part
\* of scanning in which startLiveCapture has not yet finished stands for it
Phase == IF state = "scanning" /\ startPc # "none" THEN "connecting" ELSE state

SuccessEdges ==
    {<<"idle", "connecting">>, <<"connecting", "scanning">>,
     <<"scanning", "recording">>, <<"recording", "saving">>,
     <<"saving", "idle">>}

\* C10: the phase changes only along the success path, from scanning or
\* recording to idle on cancel and from any phase to idle on an error; a
\* session error and a failed connect lead to idle
C10_PhaseEdges ==
    [][/\ \/ Phase' = Phase
          \/ <<Phase, Phase'>> \in SuccessEdges
          \/ (Cancel /\ Phase \in {"scanning", "recording"} /\ Phase' = "idle")
          \/ ((StartFails \/ SessionError) /\ Phase' = "idle")
       /\ SessionError => Phase' = "idle"
       /\ StartConnectFail => Phase' = "idle"
       /\ (reconnects > 0 /\ ReconnectDone(FALSE)) => Phase' = "idle"]_vars

\* C21: the step that starts a run leaves the text buffer and the extracted
\* transcript empty, and within a run the buffer only grows
C21_TranscriptResetAtStart ==
    [][/\ runs' = runs + 1 => /\ transcriptBuffer' = <<>>
                              /\ transcribedMemory' = <<>>
       /\ runs' = runs =>
             /\ Len(transcriptBuffer') >= Len(transcriptBuffer)
             /\ SubSeq(transcriptBuffer', 1, Len(transcriptBuffer))
                  = transcriptBuffer]_vars

\* an analysis call settles without a usable description
AnalysisAborts == \E f \in Frames : AnalysisDone(f, Null)

\* C23: an analysis call that yields no usable description changes neither
\* capturedObject nor the phase, leaves the session, the pending connects
\* and the camera as they are, and clears the capture-in-progress flag
C23_AnalysisFailureAborts ==
    [][AnalysisAborts => /\ UNCHANGED <<capturedObject, state, client,
                                        clientRef, reconnects, streamRef,
                                        videoSrc, capturedImagePreview>>
                         /\ hist'.captures = hist.captures
                         /\ ~processingCapture']_vars

\* C23 witness: an analysis call has just been given up in scanning with
\* nothing captured, the camera open, the session untouched and the flag
\* cleared
C23_Witness ==
    /\ ctlOut.aborted
    /\ state = "scanning"
    /\ capturedObject = NoObject
    /\ streamRef
    /\ client.session = "open"
    /\ reconnects = 0
    /\ ~processingCapture

\* the callbacks registered for kind e and not removed since
Registered(e) == {cb \in Callbacks : regAt[e][cb] > 0}

WithinOneStep(n) ==
    LET d == float32Data * SampleScale - n * DequantScale
    IN 0 - SampleScale <= d /\ d <= SampleScale

\* C25: every quantized value lies in [-32768, 32767]; 1.0 and -1.0 come
\* back from quantizer and dequantizer within one step of 1/32768, and 0.0
\* comes back as 0.0
C25_Pcm16RoundTrip ==
    /\ int16Data \in (0 - 32768)..32767
    /\ (pcmOut = "played" /\ inputData.kind = "num"
          /\ inputData.n \in {SampleScale, 0 - SampleScale})
         => WithinOneStep(inputData.n)
    /\ (pcmOut = "played" /\ inputData = [kind |-> "num", n |-> 0])
         => float32Data = 0

\* C25 witness: the sample 1.0 has come back as 32767/32768
C25_Witness ==
    /\ pcmOut = "played"
    /\ inputData = [kind |-> "num", n |-> SampleScale]
    /\ int16Data = PosScale
    /\ float32Data = PosScale

\* C26: a step that calls the teardown routine leaves the timers cancelled,
\* the recorder stopped, the player closed, the session disconnected and
\* the camera tracks stopped
C26_TeardownComplete ==
    [][(Cancel \/ Done) => /\ scanningTimeout' = "null"
                            /\ ~intervalSet'
                            /\ ~micOpen'
                            /\ ~streamerOpen'
                            /\ ~(clientRef' /\ client'.session = "open")
                            /\ ~streamRef']_vars

\* C27: the trigger timer is armed only by a mode-switch connect that has
\* completed, and when it fires while the session that connect opened is
\* open on the client in clientRef, the trigger message is sent
C27_TriggerDelivered ==
    [][/\ triggers' > triggers =>
             \/ (reconnects' < reconnects /\ client'.session = "open")
             \/ orphanReconnects' < orphanReconnects
       /\ (TriggerFires /\ clientRef /\ client.session = "open")
             => ctlOut'.sent = "trigger"]_vars

\* a tick starts an analysis call
CaptureStarts == \E f \in Frames : analyses'[f] > analyses[f]

\* C28: an analysis call starts only on a tick that ends a row of
\* STABLE_FRAMES_REQUIRED stable evaluated ticks; an unstable tick sets the
\* counter to zero, the first evaluated tick of a run does so too, and a
\* tick that finds the video not ready leaves the counter as it is
C28_StabilityDebounce ==
    [][/\ CaptureStarts => /\ \E g \in BOOLEAN : Tick(TRUE, g)
                           /\ hist'.streak = STABLE_FRAMES_REQUIRED
       /\ (\E g \in BOOLEAN : Tick(FALSE, g)) => stableFrameCount' = 0
       /\ (~previousFrameData
             /\ \E d \in BOOLEAN, g \in BOOLEAN : Tick(d, g))
            => (stableFrameCount' = 0 /\ ~CaptureStarts)
       /\ TickNotReady => UNCHANGED stableFrameCount]_vars

\* C28 witness: a tick has just started an analysis call at the end of a
\* row of stable ticks
C28_Witness ==
    /\ processingCapture
    /\ InFlight = 1
    /\ hist.streak = STABLE_FRAMES_REQUIRED
    /\ stableFrameCount = 0
    /\ capturedObject = NoObject

\* C30: an audio chunk is forwarded only while an object is captured, a
\* frame only while none is captured and no capture is in progress, and
\* within a run the transcript does not change while none is captured
C30_PhaseSeparation ==
    [][/\ ctlOut'.sent = "audio" => capturedObject # NoObject
       /\ ctlOut'.sent = "frame" => /\ capturedObject = NoObject
                                    /\ ~processingCapture
                                    /\ InFlight = 0
       /\ (capturedObject = NoObject /\ runs' = runs)
            => UNCHANGED <<transcriptBuffer, transcribedMemory>>]_vars

\* ------------------------------------------------- claims on LiveClient
\* the sessions this client opened that are not closed
OpenSessions == {s \in SessionIds : sessions[s] = "open"}

\* this.session is null or references a session that is no longer open
NoOpenSession == session = 0 \/ sessions[session] # "open"

\* C11: at most one session opened by the client is un-closed at any time,
\* and connect on a client whose session is open closes that session first
C11_OneSessionPerClient ==
    [][/\ Cardinality(OpenSessions') <= 1
       /\ ((\E config \in Configs : connect(config)) /\ ~NoOpenSession)
            => sessions'[session] # "open"]_vars

\* C12: while the client has no open session, sendRealtimeInput and send do
\* not throw, hand nothing to a session and leave the client's fields as
\* they were
C12_SendWithoutSession ==
    [][((sendRealtimeInput \/ send) /\ NoOpenSession)
          => /\ ~clientOut'.threw
             /\ ~clientOut'.forwarded
             /\ UNCHANGED <<session, isConnected, sessions>>]_vars

\* C12 witness: a send was dropped on a client whose session the remote end
\* has closed
C12_Witness ==
    /\ clientOut.op \in {"sendRealtimeInput", "send"}
    /\ ~clientOut.forwarded
    /\ session # 0
    /\ sessions[session] = "closed"

\* C22: the session is asked for with the system instruction, the model
\* and the response modalities that the config of the call declares
C22_ConfigHonoured ==
    /\ connectArgs.systemInstruction = requested.systemInstruction
    /\ requested.model # "absent" => connectArgs.model = requested.model
    /\ requested.responseModalities # {}
         => connectArgs.responseModalities = requested.responseModalities

\* C29: while this.session is the one open session of the client and the
\* client is connected, the close callback of a session that disconnect()
\* closed leaves connected true and the guard of send and sendRealtimeInput
\* open
C29_ReconnectStaysConnected ==
    [][((\E s \in SessionIds : onclose(s)) /\ OpenSessions = {session}
          /\ isConnected)
         => (isConnected' /\ Sendable')]_vars

\* a message with none of the fields handleMessage looks at
Unrecognized(msg) ==
    msg.kind # "object" \/ (~msg.setupComplete /\ ~msg.serverContent)

\* C13: handleMessage returns without throwing for every inbound message,
\* and a message of unrecognized shape emits no event
C13_RoutingTotal ==
    clientOut.op = "message"
        => /\ ~clientOut.threw
           /\ Unrecognized(clientOut.msg) => clientOut.events = <<>>

\* ---------------------------------------------- claims on AudioStreamer
\* source src is scheduled or playing: its buffer has not played out
Active(src) == currentTime < EndTime(src)

\* no source is scheduled or playing after the step
NothingActiveAfter ==
    \A i \in 1..Len(sources') : currentTime' >= EndTime(sources'[i])

\* the step starts a source
Scheduled == Len(sources') = Len(sources) + 1

\* C14: when the interrupted handler (a call of stop) has run, the queue is
\* empty and no segment enqueued before it is playing or still to play
C14_InterruptFlushes ==
    [][stop => (queue' = <<>> /\ NothingActiveAfter)]_vars

\* C15: without a stop in between, a segment that waited in the queue starts
\* where the segment before it ends, whenever the ended callback comes; a
\* segment enqueued while nothing plays starts at the current time
C15_Gapless ==
    [][Scheduled =>
          IF /\ streamerOut'.op = "onended"
             /\ sources[Len(sources)].stops = stops
          THEN sources'[Len(sources')].start = EndTime(sources[Len(sources)])
          ELSE (\A i \in 1..Len(sources) : ~Active(sources[i]))
                   => sources'[Len(sources')].start = currentTime]_vars

\* C16: no two sources play over overlapping intervals, a segment leaves the
\* queue only when every source before it has reached its end, and nextTime
\* decreases only in stop
C16_NoOverlap ==
    [][/\ \A i, j \in 1..Len(sources') :
              i < j => \/ EndTime(sources'[i]) <= sources'[j].start
                       \/ EndTime(sources'[j]) <= sources'[i].start
       /\ Scheduled => \A i \in 1..Len(sources) : ~Active(sources[i])
       /\ nextTime' < nextTime => stop]_vars

\* C17: complete is emitted only when no source is scheduled or playing, and
\* it is emitted when an ended callback finds the queue empty with nothing
\* scheduled
C17_CompleteWhenDrained ==
    [][/\ streamerOut'.complete => NothingActiveAfter
       /\ (streamerOut'.op = "onended" /\ ~Scheduled /\ queue' = <<>>
             /\ NothingActiveAfter) => streamerOut'.complete]_vars

\* C18: a malformed chunk does not raise out of addPCM16 and leaves the queue
\* and the scheduling fields as they were
C18_MalformedDropped ==
    [][\A chunk \in AudioChunks :
          (chunk.kind # "pcm" /\ addPCM16(chunk))
              => /\ ~streamerOut'.threw
                 /\ UNCHANGED <<queue, isPlaying, nextTime, sources>>]_vars

\* ---------------------------------------------- claims on AudioRecorder
\* every start() call has finished
StartsFinished == \A c \in ChainIds : chains[c].track # "pending"

\* some acquired microphone track has not been stopped
MicLive == \E c \in ChainIds : chains[c].track = "live"

\* C19: when the latest call is a stop() and every start() has finished, no
\* acquired track is live and the recorder is not recording; stop() on a
\* recorder that was not started changes nothing and raises nothing
C19_NoMicLeak ==
    [][/\ (lastCall' = "stop" /\ StartsFinished')
            => (~MicLive' /\ ~isRecording')
       /\ (stopRecorder /\ ~isRecording /\ mediaStream = 0)
            => /\ UNCHANGED <<isRecording, mediaStream, processorNode, chains>>
               /\ ~recorderOut'.threw]_vars

\* C20: after stop() has returned on a started recorder no data or volume
\* event is emitted until a start() called after it succeeds
C20_SilentAfterStop ==
    [][recorderOut'.emitted => ~quiet]_vars

====
